---- MODULE Spec2Model ----
(***************************************************************************)
(* Model of the GPA installer (install.py), the GPA benchmark runner       *)
(* (run_benchmarks.py) and the parts of the benchmarking driver            *)
(* (python/bench.py) that tests/test_bench.py exercises.                   *)
(*                                                                         *)
(* One behaviour is one client invocation: `entry` names the operation the *)
(* client started (a script's main(), or a public method of GPAInstaller   *)
(* called on its own), the remaining variables hold the command line, the  *)
(* filesystem, the record of child processes spawned, the log and the      *)
(* position of the single thread of control.                               *)
(***************************************************************************)
EXTENDS Integers, Sequences, FiniteSets, TLC

\* ------------------------------------------------------------------ bounds
MaxExit == 1          \* child processes exit with a status in 0..MaxExit
MaxArgs == 2          \* length of the runner's command line
MaxLen  == 2          \* length of versions / version_names handed to TestCase

\* ------------------------------------------------------------- vocabulary
None == "None"                      \* Python's None where a string is expected
ExitCodes == 0..MaxExit
Outs == {"", "out"}                 \* what a child writes to stdout
Errs == {"", "err"}                 \* what a child writes to stderr

\* What the operating system does with one child process: whether the
\* executable resolves, its exit status and what it writes.
Procs == [resolvable : BOOLEAN, returncode : ExitCodes, out : Outs, err : Errs]

LogRec(level, msg, arg) == [level |-> level, msg |-> msg, arg |-> arg]

\* ------------------------------------------------- subprocess.run, as used
\* subprocess.run(command, check=check, capture_output=capture, text=True):
\* FileNotFoundError when the executable does not resolve; otherwise the
\* child runs to completion, and CalledProcessError is raised when check is
\* set and the status is non-zero.  Output is captured only on request;
\* without capture the stdout/stderr attributes are None.
subprocess_run(p, check, capture) ==
  IF ~p.resolvable
    THEN [raised |-> "FileNotFoundError", returncode |-> -1,
          stdout |-> None, stderr |-> None]
    ELSE [raised |-> IF check /\ p.returncode # 0 THEN "CalledProcessError" ELSE "none",
          returncode |-> p.returncode,
          stdout |-> IF capture THEN p.out ELSE None,
          stderr |-> IF capture THEN p.err ELSE None]

\* The two error lines the except-clause of run_command logs.
run_command_log(r) ==
  IF r.raised = "CalledProcessError"
    THEN << LogRec("ERROR", "Command failed", ""),
            LogRec("ERROR", "Error output", r.stderr) >>
    ELSE << >>

\* A run_command that never asks subprocess.run to check the exit status.
GPAInstaller_run_command_unchecked(p, check) == subprocess_run(p, FALSE, TRUE)

\* GPAInstaller.run_command: capture_output=True, re-raises.
GPAInstaller_run_command(p, check) == subprocess_run(p, check, TRUE)

\* BenchmarkRunner.run_command: capture_output=False, re-raises.
BenchmarkRunner_run_command(p, check) == subprocess_run(p, check, FALSE)


\* ------------------------------------------------------------------ state
VARIABLES
  entry,           \* the operation the client invoked
  pc,              \* position of the thread of control
  exc,             \* exception in flight ("none" when there is none)
  exitCode,        \* process exit status; -1 while the process runs
  platform,        \* properties of the interpreter and its environment
  args,            \* command line / arguments of the operation
  known_args,      \* runner: namespace parse_known_args returned
  remaining_args,  \* runner: the arguments parse_known_args did not recognise
  fs,              \* the filesystem facts the scripts test or change
  fs0,             \* the filesystem as it was when the operation started
  calls,           \* child processes spawned so far, in order
  env,             \* installer: environment handed to package-manager calls
  log,             \* records written to the logger, in order
  result,          \* executor entry: what run_command returned or raised
  cases            \* bench entry: the TestCase values the last call produced

vars == << entry, pc, exc, exitCode, platform, args, known_args, remaining_args,
           fs, fs0, calls, env, log, result, cases >>

\* Directory contents: a set of file names, or Absent when there is no directory.
Files == {"gpa", "gpa-advise"}
Absent == {"<absent>"}
DirStates == SUBSET Files \cup {Absent}

NoFs == [install_dir |-> FALSE, spack |-> FALSE, setup_env |-> FALSE,
         hpctoolkit |-> FALSE, build |-> FALSE, prefix |-> FALSE,
         src_bin |-> Absent, dst_bin |-> Absent,
         data |-> FALSE, get_data |-> FALSE, bench |-> FALSE]

NoPlatform == [lazy_annotations |-> TRUE, keep_dashdash |-> TRUE, has_PATH |-> TRUE]
NoArgs == [argv |-> << >>, spack_dir |-> FALSE, spack_libs_dir |-> "",
           executor |-> "", proc |-> [resolvable |-> TRUE, returncode |-> 0,
                                      out |-> "", err |-> ""],
           check |-> TRUE]
NoResult == [raised |-> "none", returncode |-> -1, stdout |-> None, stderr |-> None]

\* One entry of `calls`.
Call(argv, cwd, e, p) ==
  [argv |-> argv, cwd |-> cwd, env |-> e,
   resolvable |-> p.resolvable, returncode |-> p.returncode]

Info(msg)    == LogRec("INFO", msg, "")
Warning(msg) == LogRec("WARNING", msg, "")
Error(msg)   == LogRec("ERROR", msg, "")

\* ------------------------------------------------- entry: Command Executor
\* A client calls one of the two run_command methods on one command.
Executors == {"GPAInstaller", "BenchmarkRunner"}

InitExecutor ==
  /\ entry = "run_command"
  /\ pc = "run_command"
  /\ args \in { [NoArgs EXCEPT !.executor = x, !.proc = p, !.check = c] :
                  x \in Executors, p \in Procs, c \in BOOLEAN }
  /\ platform = NoPlatform
  /\ fs = NoFs /\ fs0 = NoFs
  /\ exc = "none" /\ exitCode = -1
  /\ known_args = [skip_data_setup |-> FALSE] /\ remaining_args = << >>
  /\ calls = << >> /\ env = "none" /\ log = << >>
  /\ result = NoResult /\ cases = << >>

run_command ==
  /\ entry = "run_command" /\ pc = "run_command" /\ exc = "none"
  /\ LET r == IF args.executor = "GPAInstaller"
                THEN GPAInstaller_run_command(args.proc, args.check)
                ELSE BenchmarkRunner_run_command(args.proc, args.check)
     IN /\ result' = r
        /\ exc' = r.raised
        /\ log' = log \o run_command_log(r)
        /\ calls' = Append(calls, Call(<< "cmd" >>, ".", "inherit", args.proc))
        /\ pc' = IF r.raised = "none" THEN "returned" ELSE pc
  /\ UNCHANGED << entry, exitCode, platform, args, known_args, remaining_args,
                  fs, fs0, env, cases >>


\* ------------------------------------------------------ entry: install.py
\* "install" is the script (main, which calls GPAInstaller.install);
\* "install_hpctoolkit" and "copy_binaries" are those methods called on a
\* freshly constructed GPAInstaller.
InstallerEntries == {"install", "install_hpctoolkit", "copy_binaries"}

InstallerFs ==
  { f \in [install_dir : BOOLEAN, spack : BOOLEAN, setup_env : BOOLEAN,
           hpctoolkit : BOOLEAN, build : BOOLEAN, prefix : {FALSE},
           src_bin : DirStates, dst_bin : DirStates,
           data : {FALSE}, get_data : {FALSE}, bench : {FALSE}] :
      /\ f.build => f.hpctoolkit
      /\ f.spack => f.install_dir
      /\ (f.dst_bin # Absent) => f.install_dir }

InitInstaller ==
  /\ entry \in InstallerEntries
  /\ pc = entry
  /\ args \in { [NoArgs EXCEPT !.spack_dir = g, !.spack_libs_dir = "<spack>/lib"] :
                  g \in BOOLEAN }
  /\ platform \in { [NoPlatform EXCEPT !.has_PATH = h] : h \in BOOLEAN }
  /\ fs \in InstallerFs /\ fs0 = fs
  /\ exc = "none" /\ exitCode = -1
  /\ known_args = [skip_data_setup |-> FALSE] /\ remaining_args = << >>
  /\ calls = << >> /\ env = "none" /\ log = << >>
  /\ result = NoResult /\ cases = << >>

\* str(spack_root / "bin" / "spack"), spack_root being what setup_spack returned.
spack_bin == IF args.spack_dir THEN "<spack_dir>/bin/spack"
                               ELSE "<install_dir>/spack/bin/spack"

\* The command lines install.py builds.
git_clone_cmd      == << "git", "clone", "https://github.com/spack/spack.git" >>
source_env_cmd     == << "bash", "-c", "source <setup-env.sh> && env" >>
spack_install_deps == << spack_bin, "install", "--only", "dependencies",
                         "hpctoolkit", "^dyninst@master", "^binutils@2.34+libiberty~nls" >>
spack_install_libmonitor == << spack_bin, "install", "libmonitor@master+dlopen+hpctoolkit" >>
spack_install_mbedtls    == << spack_bin, "install", "mbedtls", "gotcha" >>
spack_find_boost   == << spack_bin, "find", "--path", "boost" >>
configure_cmd      == << "../configure", "--prefix=<install_dir>/hpctoolkit",
                         "--with-cuda=/usr/local/cuda",
                         "--with-cupti=/usr/local/cuda/extras/CUPTI",
                         "--with-spack=" \o args.spack_libs_dir >>
make_cmd           == << "make", "install", "-j8" >>

\* One checked run_command step of the installer: spawn the child, then
\* either go on to `next` or leave the CalledProcessError/FileNotFoundError
\* in flight.  Leaves fs, env and exitCode to the caller.
InstallerStep(cmd, cwd, e, p, next) ==
  LET r == GPAInstaller_run_command(p, TRUE)
  IN /\ calls' = Append(calls, Call(cmd, cwd, e, p))
     /\ exc' = r.raised
     /\ log' = log \o run_command_log(r)
     /\ pc' = IF r.raised = "none" THEN next ELSE pc

\* install(), lines 162-165: log, then mkdir(parents=True, exist_ok=True).
install ==
  /\ entry = "install" /\ pc = "install" /\ exc = "none"
  /\ log' = Append(log, Info("Installing GPA to"))
  /\ fs' = [fs EXCEPT !.install_dir = TRUE]
  /\ pc' = "setup_spack"
  /\ UNCHANGED << entry, exc, exitCode, platform, args, known_args,
                  remaining_args, fs0, calls, env, result, cases >>

\* setup_spack(): use the directory given, or clone into the install directory.
\* git refuses to clone into an existing spack directory.
setup_spack ==
  /\ entry = "install" /\ pc = "setup_spack" /\ exc = "none"
  /\ IF args.spack_dir
       THEN /\ log' = Append(log, Info("Using existing Spack installation"))
            /\ pc' = "install_spack_dependencies"
            /\ UNCHANGED << exc, calls, fs >>
       ELSE \E p \in Procs :
              /\ (p.resolvable /\ fs.spack) => p.returncode # 0
              /\ LET r == GPAInstaller_run_command(p, TRUE)
                 IN /\ calls' = Append(calls, Call(git_clone_cmd, "<install_dir>", "inherit", p))
                    /\ exc' = r.raised
                    /\ log' = Append(log, Info("Cloning Spack...")) \o run_command_log(r)
                    /\ pc' = IF r.raised = "none" THEN "install_spack_dependencies" ELSE pc
                    /\ fs' = IF r.raised = "none" THEN [fs EXCEPT !.spack = TRUE] ELSE fs
  /\ UNCHANGED << entry, exitCode, platform, args, known_args, remaining_args,
                  fs0, env, result, cases >>

\* install_spack_dependencies(), lines 56-74: build the environment (KeyError
\* when PATH is not set), and source setup-env.sh when the root has one.
install_spack_dependencies ==
  /\ entry = "install" /\ pc = "install_spack_dependencies" /\ exc = "none"
  /\ IF ~platform.has_PATH
       THEN /\ exc' = "KeyError"
            /\ log' = Append(log, Info("Installing Spack dependencies..."))
            /\ UNCHANGED << pc, calls, env >>
       ELSE IF fs.setup_env
         THEN \E p \in Procs :
                LET r == GPAInstaller_run_command(p, TRUE)
                IN /\ calls' = Append(calls, Call(source_env_cmd, ".", "spack", p))
                   /\ exc' = r.raised
                   /\ log' = Append(log, Info("Installing Spack dependencies..."))
                               \o run_command_log(r)
                   /\ pc' = IF r.raised = "none" THEN "spack_install_1" ELSE pc
                   /\ env' = IF r.raised = "none" /\ r.stdout # ""
                               THEN "spack+setup-env" ELSE "spack"
         ELSE /\ log' = Append(log, Info("Installing Spack dependencies..."))
              /\ env' = "spack"
              /\ pc' = "spack_install_1"
              /\ UNCHANGED << exc, calls >>
  /\ UNCHANGED << entry, exitCode, platform, args, known_args, remaining_args,
                  fs, fs0, result, cases >>

\* The last two install commands issued in the opposite order.
spack_installs_swapped ==
  << spack_install_deps, spack_install_mbedtls, spack_install_libmonitor >>

\* The order in which install_spack_dependencies issues its install commands.
spack_installs == << spack_install_deps, spack_install_libmonitor, spack_install_mbedtls >>

\* Lines 77-80: spack install --only dependencies hpctoolkit ...
spack_install_1 ==
  /\ entry = "install" /\ pc = "spack_install_1" /\ exc = "none"
  /\ \E p \in Procs : InstallerStep(spack_installs[1], ".", env, p, "spack_install_2")
  /\ UNCHANGED << entry, exitCode, platform, args, known_args, remaining_args,
                  fs, fs0, env, result, cases >>

\* Lines 82-84: spack install libmonitor@master+dlopen+hpctoolkit
spack_install_2 ==
  /\ entry = "install" /\ pc = "spack_install_2" /\ exc = "none"
  /\ \E p \in Procs : InstallerStep(spack_installs[2], ".", env, p, "spack_install_3")
  /\ UNCHANGED << entry, exitCode, platform, args, known_args, remaining_args,
                  fs, fs0, env, result, cases >>

\* Line 86: spack install mbedtls gotcha
spack_install_3 ==
  /\ entry = "install" /\ pc = "spack_install_3" /\ exc = "none"
  /\ \E p \in Procs : InstallerStep(spack_installs[3], ".", env, p, "spack_find")
  /\ UNCHANGED << entry, exitCode, platform, args, known_args, remaining_args,
                  fs, fs0, env, result, cases >>

\* Lines 89-90: run_command(..., env=env, capture_output=True).  run_command
\* has no capture_output parameter, so the call raises TypeError before any
\* child is spawned; lines 91-95 are never executed.
spack_find ==
  /\ entry = "install" /\ pc = "spack_find" /\ exc = "none"
  /\ exc' = "TypeError"
  /\ UNCHANGED << entry, pc, exitCode, platform, args, known_args, remaining_args,
                  fs, fs0, calls, env, log, result, cases >>


SourceMissing == "FileNotFoundError: HPCToolkit source directory missing"

\* install_hpctoolkit(), lines 99-111: the source directory must exist; the
\* build directory is removed if present and created afresh.
install_hpctoolkit ==
  /\ entry \in {"install", "install_hpctoolkit"}
  /\ pc = "install_hpctoolkit" /\ exc = "none"
  /\ IF ~fs.hpctoolkit
       THEN /\ exc' = SourceMissing
            /\ log' = log \o << Info("Installing HPCToolkit..."),
                                Error("HPCToolkit source not found") >>
            /\ UNCHANGED << pc, fs >>
       ELSE /\ fs' = [fs EXCEPT !.build = TRUE]
            /\ log' = Append(log, Info("Installing HPCToolkit..."))
            /\ pc' = "configure"
            /\ UNCHANGED exc
  /\ UNCHANGED << entry, exitCode, platform, args, known_args, remaining_args,
                  fs0, calls, env, result, cases >>

\* Lines 113-125: ../configure --prefix=... in the build directory.
configure ==
  /\ entry \in {"install", "install_hpctoolkit"}
  /\ pc = "configure" /\ exc = "none"
  /\ \E p \in Procs : InstallerStep(configure_cmd, "hpctoolkit/build", "inherit", p, "make")
  /\ UNCHANGED << entry, exitCode, platform, args, known_args, remaining_args,
                  fs, fs0, env, result, cases >>

\* Lines 127-130: make install -j8, which populates <install_dir>/hpctoolkit.
make ==
  /\ entry \in {"install", "install_hpctoolkit"}
  /\ pc = "make" /\ exc = "none"
  /\ \E p \in Procs :
       LET r == GPAInstaller_run_command(p, TRUE)
       IN /\ calls' = Append(calls, Call(make_cmd, "hpctoolkit/build", "inherit", p))
          /\ exc' = r.raised
          /\ IF r.raised = "none"
               THEN /\ log' = Append(log, Info("HPCToolkit installed in"))
                    /\ fs' = [fs EXCEPT !.prefix = TRUE, !.install_dir = TRUE]
                    /\ pc' = IF entry = "install" THEN "copy_binaries" ELSE "returned"
               ELSE /\ log' = log \o run_command_log(r)
                    /\ UNCHANGED << fs, pc >>
  /\ UNCHANGED << entry, exitCode, platform, args, known_args, remaining_args,
                  fs0, env, result, cases >>

\* What copy_binaries leaves in <install_dir>/bin: rmtree of an existing
\* destination followed by copytree, or nothing at all without ./bin.
copied_bin(src, dst) == IF src # Absent THEN src ELSE dst

\* copy_binaries(), lines 149-158; when called from install() the three
\* closing log lines (179-181) follow and main returns.
copy_binaries ==
  /\ entry \in {"install", "copy_binaries"}
  /\ pc = "copy_binaries" /\ exc = "none"
  /\ fs' = [fs EXCEPT !.dst_bin = copied_bin(fs.src_bin, fs.dst_bin),
                      !.install_dir = (fs.install_dir \/ fs.src_bin # Absent)]
  /\ log' = log
       \o << IF fs.src_bin # Absent THEN Info("Copied binaries to")
                                    ELSE Warning("Source bin directory not found") >>
       \o (IF entry = "install"
             THEN << Info("GPA installation completed successfully!"),
                     Info("Add to PATH: export PATH=<install_dir>/bin:$PATH"),
                     Info("Add GPA path: export GPA=<install_dir>") >>
             ELSE << >>)
  /\ pc' = IF entry = "install" THEN "exited" ELSE "returned"
  /\ exitCode' = IF entry = "install" THEN 0 ELSE exitCode
  /\ UNCHANGED << entry, exc, platform, args, known_args, remaining_args,
                  fs0, calls, env, result, cases >>

\* ---------------------------------------------------- uncaught exceptions
\* Neither script has an except-clause around main(): an exception leaves
\* main, the interpreter prints the traceback and the process exits with
\* status 1.  A method a client called directly hands the exception to it.
Scripts == {"install", "run_benchmarks"}

Propagate ==
  /\ exc # "none" /\ pc \notin {"exited", "raised"}
  /\ pc' = IF entry \in Scripts THEN "exited" ELSE "raised"
  /\ exitCode' = IF entry \in Scripts THEN 1 ELSE exitCode
  /\ UNCHANGED << entry, exc, platform, args, known_args, remaining_args,
                  fs, fs0, calls, env, log, result, cases >>


\* ----------------------------------------------- entry: run_benchmarks.py
Tokens == {"--skip-data-setup", "--skip", "--", "-v", "x"}
SeqsUpTo(S, n) == UNION { [1..k -> S] : k \in 0..n }

\* argparse accepts the flag spelled out or as an unambiguous prefix.
IsSkipFlag(t) == t \in {"--skip-data-setup", "--skip"}

\* parser.parse_known_args() for a parser whose only option is the
\* store_true flag --skip-data-setup (add_help=False): the flag is consumed
\* wherever it stands before a "--"; everything else, and everything after a
\* "--", is returned as the remaining arguments.  Whether the "--" itself is
\* kept among them depends on the argparse release.
RECURSIVE parse_args(_, _, _)
parse_args(a, after_dd, keep_dd) ==
  IF a = << >> THEN [skip_data_setup |-> FALSE, remaining |-> << >>]
  ELSE LET h == Head(a) IN
    IF after_dd
      THEN LET r == parse_args(Tail(a), TRUE, keep_dd)
           IN [r EXCEPT !.remaining = << h >> \o r.remaining]
    ELSE IF h = "--"
      THEN LET r == parse_args(Tail(a), TRUE, keep_dd)
           IN [r EXCEPT !.remaining = (IF keep_dd THEN << h >> ELSE << >>) \o r.remaining]
    ELSE IF IsSkipFlag(h)
      THEN LET r == parse_args(Tail(a), FALSE, keep_dd)
           IN [r EXCEPT !.skip_data_setup = TRUE]
    ELSE LET r == parse_args(Tail(a), FALSE, keep_dd)
         IN [r EXCEPT !.remaining = << h >> \o r.remaining]

parse_known_args(a) == parse_args(a, FALSE, platform.keep_dashdash)

RunnerFs ==
  { f \in [install_dir : {FALSE}, spack : {FALSE}, setup_env : {FALSE},
           hpctoolkit : {FALSE}, build : {FALSE}, prefix : {FALSE},
           src_bin : {Absent}, dst_bin : {Absent},
           data : BOOLEAN, get_data : BOOLEAN, bench : BOOLEAN] : TRUE }

InitRunner ==
  /\ entry = "run_benchmarks"
  /\ pc = "import"
  /\ args \in { [NoArgs EXCEPT !.argv = a] : a \in SeqsUpTo(Tokens, MaxArgs) }
  /\ platform \in { [NoPlatform EXCEPT !.lazy_annotations = l, !.keep_dashdash = k] :
                      l \in BOOLEAN, k \in BOOLEAN }
  /\ fs \in RunnerFs /\ fs0 = fs
  /\ exc = "none" /\ exitCode = -1
  /\ known_args = [skip_data_setup |-> FALSE] /\ remaining_args = << >>
  /\ calls = << >> /\ env = "none" /\ log = << >>
  /\ result = NoResult /\ cases = << >>

get_data_cmd == << "bash", "<cwd>/GPA-Benchmark/get_data.sh" >>
bench_script == "<cwd>/python/bench.py"
DriverMissing == "FileNotFoundError: Benchmark script not found"

\* command = [sys.executable, str(bench_script)] + args
driver_cmd(a) == << "python", bench_script >> \o a

\* Executing the module: the class body of BenchmarkRunner defines
\* run_command with the annotation Optional[Path], and the module imports only
\* List from typing.  An interpreter that evaluates annotations when the
\* function is defined raises NameError here; one that defers them goes on
\* to main().
import_module ==
  /\ entry = "run_benchmarks" /\ pc = "import" /\ exc = "none"
  /\ IF platform.lazy_annotations
       THEN pc' = "main" /\ UNCHANGED exc
       ELSE exc' = "NameError" /\ UNCHANGED pc
  /\ UNCHANGED << entry, exitCode, platform, args, known_args, remaining_args,
                  fs, fs0, calls, env, log, result, cases >>

\* main(), lines 93-111: parse, construct the runner, decide on data setup.
main ==
  /\ entry = "run_benchmarks" /\ pc = "main" /\ exc = "none"
  /\ LET r == parse_known_args(args.argv)
     IN /\ known_args' = [skip_data_setup |-> r.skip_data_setup]
        /\ remaining_args' = r.remaining
        /\ pc' = IF r.skip_data_setup THEN "run_benchmarks" ELSE "setup_data"
  /\ UNCHANGED << entry, exc, exitCode, platform, args, fs, fs0, calls, env,
                  log, result, cases >>

\* setup_data(): nothing when the data directory exists; else run
\* get_data.sh when it exists; else warn.
setup_data ==
  /\ entry = "run_benchmarks" /\ pc = "setup_data" /\ exc = "none"
  /\ IF fs.data
       THEN /\ log' = Append(log, Info("Benchmark data already exists, skipping download"))
            /\ pc' = "run_benchmarks"
            /\ UNCHANGED << exc, calls, fs >>
     ELSE IF fs.get_data
       THEN \E p \in Procs, d \in BOOLEAN :
              LET r == BenchmarkRunner_run_command(p, TRUE)
              IN /\ calls' = Append(calls, Call(get_data_cmd, "<cwd>/GPA-Benchmark", "inherit", p))
                 /\ exc' = r.raised
                 /\ log' = log \o << Info("Setting up benchmark data..."),
                                     Info("Running data download script...") >>
                               \o run_command_log(r)
                 /\ fs' = IF p.resolvable THEN [fs EXCEPT !.data = d] ELSE fs
                 /\ pc' = IF r.raised = "none" THEN "run_benchmarks" ELSE pc
       ELSE /\ log' = log \o << Info("Setting up benchmark data..."),
                                Warning("get_data.sh script not found, assuming data is pre-installed") >>
            /\ pc' = "run_benchmarks"
            /\ UNCHANGED << exc, calls, fs >>
  /\ UNCHANGED << entry, exitCode, platform, args, known_args, remaining_args,
                  fs0, env, result, cases >>

\* run_benchmarks(args): the driver script must exist; it is run with the
\* remaining arguments; when it succeeds main returns and the process exits 0.
run_benchmarks ==
  /\ entry = "run_benchmarks" /\ pc = "run_benchmarks" /\ exc = "none"
  /\ IF ~fs.bench
       THEN /\ exc' = DriverMissing
            /\ log' = Append(log, Info("Running GPA benchmarks..."))
            /\ UNCHANGED << pc, calls, exitCode >>
       ELSE \E p \in Procs :
              LET r == BenchmarkRunner_run_command(p, TRUE)
              IN /\ calls' = Append(calls, Call(driver_cmd(remaining_args), "<cwd>", "inherit", p))
                 /\ exc' = r.raised
                 /\ log' = Append(log, Info("Running GPA benchmarks...")) \o run_command_log(r)
                 /\ pc' = IF r.raised = "none" THEN "exited" ELSE pc
                 /\ exitCode' = IF r.raised = "none" THEN 0 ELSE exitCode
  /\ UNCHANGED << entry, platform, args, known_args, remaining_args,
                  fs, fs0, env, result, cases >>


\* ------------------------------------------- entry: python/bench.py (bench)
\* The driver's TestCase dataclass and its setup() function, as the test
\* suite and the data-model section describe them.
Variants == {"v1", "v2"}
Labels   == {"name1", "name2"}
Archs    == {"V100", "A100"}

\* The check TestCase makes on construction.
TestCase_valid(versions, version_names) == Len(versions) = Len(version_names)

TestCase(group, name, versions, version_names) ==
  [group |-> group, name |-> name, versions |-> versions,
   version_names |-> version_names]

\* An abridged registry: one leaf, one group of two, one case with
\* architecture-conditional variants.
Catalog ==
  << TestCase("rodinia", "bfs", << "", "-opt" >>, << "bfs", "bfs-opt" >>),
     TestCase("quicksilver", "quicksilver-1", << "", "-opt" >>, << "qs", "qs-opt" >>),
     TestCase("quicksilver", "quicksilver-2", << "", "-opt" >>, << "qs", "qs-opt" >>),
     TestCase("exatensor", "exatensor",
              << "", "-opt1", "-opt2", "-opt3", "-opt4" >>,
              << "base", "opt1", "opt2", "opt3", "opt4" >>) >>

Filters == {"", "rodinia/bfs", "quicksilver", "exatensor", "nosuch"}

\* The variants an architecture cannot run.
Excluded(name, arch) ==
  IF name = "exatensor" /\ arch = "V100" THEN {"-opt3", "-opt4"} ELSE {}

\* A pruning that drops the excluded versions and keeps every name.
RECURSIVE prune_versions_only(_, _, _)
prune_versions_only(versions, version_names, excl) ==
  IF versions = << >>
    THEN [versions |-> versions, version_names |-> version_names]
    ELSE LET r == prune_versions_only(Tail(versions), version_names, excl)
         IN IF Head(versions) \in excl
              THEN r
              ELSE [r EXCEPT !.versions = << Head(versions) >> \o r.versions]

\* Architecture pruning: an excluded version is removed together with the
\* name at the same position.
RECURSIVE prune(_, _, _)
prune(versions, version_names, excl) ==
  IF versions = << >> \/ version_names = << >>
    THEN [versions |-> versions, version_names |-> version_names]
    ELSE LET r == prune(Tail(versions), Tail(version_names), excl)
         IN IF Head(versions) \in excl
              THEN r
              ELSE [versions |-> << Head(versions) >> \o r.versions,
                    version_names |-> << Head(version_names) >> \o r.version_names]

Matches(c, filter) ==
  \/ filter = ""
  \/ filter = c.group
  \/ filter = c.group \o "/" \o c.name

RECURSIVE select(_, _, _)
select(cat, filter, arch) ==
  IF cat = << >> THEN << >>
  ELSE LET c == Head(cat)
           r == prune(c.versions, c.version_names, Excluded(c.name, arch))
       IN (IF Matches(c, filter)
             THEN << TestCase(c.group, c.name, r.versions, r.version_names) >>
             ELSE << >>) \o select(Tail(cat), filter, arch)

InitBench ==
  /\ entry = "bench"
  /\ pc = "client"
  /\ args = NoArgs /\ platform = NoPlatform
  /\ fs = NoFs /\ fs0 = NoFs
  /\ exc = "none" /\ exitCode = -1
  /\ known_args = [skip_data_setup |-> FALSE] /\ remaining_args = << >>
  /\ calls = << >> /\ env = "none" /\ log = << >>
  /\ result = NoResult /\ cases = << >>

\* The client constructs a TestCase.
new_TestCase ==
  /\ entry = "bench" /\ pc = "client" /\ exc = "none"
  /\ \E vs \in SeqsUpTo(Variants, MaxLen), ns \in SeqsUpTo(Labels, MaxLen) :
       IF TestCase_valid(vs, ns)
         THEN cases' = << TestCase("", "test", vs, ns) >> /\ UNCHANGED exc
         ELSE exc' = "ValueError" /\ UNCHANGED cases
  /\ UNCHANGED << entry, pc, exitCode, platform, args, known_args, remaining_args,
                  fs, fs0, calls, env, log, result >>

\* The client calls setup(filter, arch).
setup ==
  /\ entry = "bench" /\ pc = "client" /\ exc = "none"
  /\ \E filter \in Filters, arch \in Archs :
       LET r == select(Catalog, filter, arch)
       IN IF r = << >>
            THEN exc' = "UnknownCategory" /\ UNCHANGED cases
            ELSE cases' = r /\ UNCHANGED exc
  /\ UNCHANGED << entry, pc, exitCode, platform, args, known_args, remaining_args,
                  fs, fs0, calls, env, log, result >>

\* ---------------------------------------------------------- specification
Init == InitExecutor \/ InitInstaller \/ InitRunner \/ InitBench

Next ==
  \/ run_command
  \/ install \/ setup_spack \/ install_spack_dependencies
  \/ spack_install_1 \/ spack_install_2 \/ spack_install_3 \/ spack_find
  \/ install_hpctoolkit \/ configure \/ make \/ copy_binaries
  \/ import_module \/ main \/ setup_data \/ run_benchmarks
  \/ new_TestCase \/ setup
  \/ Propagate

Spec == Init /\ [][Next]_vars


\* ------------------------------------------------- vocabulary of the claims
Ok(c) == c.resolvable /\ c.returncode = 0
AllOk == \A i \in 1..Len(calls) : Ok(calls[i])
SomeFailed == \E i \in 1..Len(calls) : ~Ok(calls[i])

CallsOf(cmd) == { i \in 1..Len(calls) : calls[i].argv = cmd }
FetchCalls  == CallsOf(get_data_cmd)
DriverCalls == { i \in 1..Len(calls) :
                   Len(calls[i].argv) >= 2 /\ calls[i].argv[2] = bench_script }
IsSpackCall(c) == c.argv[1] = spack_bin
SpackCalls == SelectSeq(calls, IsSpackCall)
Logged(r) == \E i \in 1..Len(log) : log[i] = r

InstallEnded == entry = "install" /\ pc = "exited"
RunnerEnded  == entry = "run_benchmarks" /\ pc = "exited"

\* ---------------------------------------------------------------------- C1
\* C1: when ./GPA-Benchmark/data exists at start, a finished run of the
\* benchmark runner has never invoked the data-fetch script and has invoked
\* the driver exactly once, as [interpreter, driver path] followed by the
\* forwarded arguments in their order.
C1_DriverOnceWhenDataExists ==
  (RunnerEnded /\ fs0.data) =>
     /\ FetchCalls = {}
     /\ Cardinality(DriverCalls) = 1
     /\ \A i \in DriverCalls :
          calls[i].argv = << "python", bench_script >> \o remaining_args

\* ---------------------------------------------------------------------- C2
\* C2: an install() run in which every external command exited 0 (in an
\* environment that sets PATH) and ./hpctoolkit exists ends with exit status
\* 0, all six steps performed in order and the success message and the two
\* export hints logged.
C2_InstallSucceeds ==
  (InstallEnded /\ AllOk /\ platform.has_PATH /\ fs0.hpctoolkit) =>
     /\ exitCode = 0
     /\ fs.install_dir /\ fs.prefix
     /\ CallsOf(configure_cmd) # {} /\ CallsOf(make_cmd) # {}
     /\ Logged(Info("GPA installation completed successfully!"))
     /\ Logged(Info("Add to PATH: export PATH=<install_dir>/bin:$PATH"))
     /\ Logged(Info("Add GPA path: export GPA=<install_dir>"))

\* ---------------------------------------------------------------------- C3
\* C3: once an external invocation has failed, no step spawns another child
\* or touches the filesystem again, so the filesystem stays as it was at the
\* moment of the failure; in both scripts the next step ends the process
\* with a non-zero exit status.
C3_FailFastNoRollback ==
  /\ []((entry \in Scripts /\ SomeFailed /\ pc = "exited") => exitCode > 0)
  /\ [][ SomeFailed =>
           /\ calls' = calls /\ fs' = fs
           /\ entry \in Scripts => (pc' = "exited" /\ exitCode' > 0) ]_vars

\* A clone that succeeded, a later package-manager call that failed: the
\* process has exited 1 and the cloned spack directory is still there.
C3_Witness ==
  /\ InstallEnded /\ SomeFailed /\ exitCode = 1
  /\ ~fs0.spack /\ fs.spack
  /\ Len(calls) >= 2 /\ Ok(calls[1]) /\ ~Ok(calls[Len(calls)])

\* ---------------------------------------------------------------------- C4
\* C4: for either executor, any command and both values of check: an
\* unresolvable executable raises the not-found error; a non-zero exit with
\* check set raises the non-zero-exit error carrying the exit code and the
\* child's stderr; otherwise the call returns the exit code and the child's
\* stdout and stderr.
C4_ExecutorOutcome ==
  (entry = "run_command" /\ calls # << >>) =>
     LET p == args.proc IN
     /\ ~p.resolvable => result.raised = "FileNotFoundError"
     /\ (p.resolvable /\ p.returncode # 0 /\ args.check) =>
           /\ result.raised = "CalledProcessError"
           /\ result.returncode = p.returncode
           /\ result.stderr = p.err
     /\ (p.resolvable /\ (p.returncode = 0 \/ ~args.check)) =>
           /\ result.raised = "none"
           /\ result.returncode = p.returncode
           /\ result.stdout = p.out
           /\ result.stderr = p.err

\* ---------------------------------------------------------------------- C5
\* C5: an install() run without ./hpctoolkit, whose external commands all
\* exited 0, ends with the source-missing error: steps 1-4 have run (the
\* three installs and the find lookup), no configure or make was invoked,
\* the build directory was neither removed nor created, and nothing was
\* copied.
C5_SourceMissing ==
  (InstallEnded /\ AllOk /\ platform.has_PATH /\ ~fs0.hpctoolkit) =>
     /\ exc = SourceMissing
     /\ Len(SpackCalls) = 4
     /\ CallsOf(configure_cmd) = {} /\ CallsOf(make_cmd) = {}
     /\ fs.build = fs0.build
     /\ fs.dst_bin = fs0.dst_bin

\* ---------------------------------------------------------------------- C6
\* C6: when an install() run reaches step 6 (every external command exited
\* 0, ./hpctoolkit exists), then for every prior <install_dir>/bin: with
\* ./bin present, <install_dir>/bin ends up holding exactly the contents of
\* ./bin; with ./bin absent, a warning is logged, <install_dir>/bin is
\* unchanged, and the installation still finishes as successful.
C6_CopyBinaries ==
  (InstallEnded /\ AllOk /\ platform.has_PATH /\ fs0.hpctoolkit) =>
     /\ fs.src_bin # Absent => fs.dst_bin = fs.src_bin
     /\ fs.src_bin = Absent =>
          /\ fs.dst_bin = fs0.dst_bin
          /\ Logged(Warning("Source bin directory not found"))
          /\ exc = "none" /\ exitCode = 0


\* ---------------------------------------------------------------------- C7
FlagGiven == \E k \in 1..Len(args.argv) : args.argv[k] = "--skip-data-setup"

\* C7: in a finished run of the benchmark runner the data-fetch script was
\* invoked at most once, and invoked exactly when --skip-data-setup was not
\* given, the data directory was absent and get_data.sh present; it ran
\* before the driver; with data and script both absent the runner warned and
\* still invoked the driver; the flag is not among the driver's arguments.
C7_DataSetup ==
  RunnerEnded =>
     /\ Cardinality(FetchCalls) <= 1
     /\ (FetchCalls # {}) <=> (~FlagGiven /\ ~fs0.data /\ fs0.get_data)
     /\ \A i \in FetchCalls, j \in DriverCalls : i < j
     /\ (~FlagGiven /\ ~fs0.data /\ ~fs0.get_data /\ fs0.bench) =>
          /\ Logged(Warning("get_data.sh script not found, assuming data is pre-installed"))
          /\ DriverCalls # {}
     /\ \A j \in DriverCalls : \A k \in 1..Len(calls[j].argv) :
          calls[j].argv[k] # "--skip-data-setup"

\* ---------------------------------------------------------------------- C8
\* C8: every TestCase value that exists, whether a client constructed it or
\* setup(filter, arch) returned it after architecture pruning, has as many
\* version names as versions.
C8_VersionsAligned ==
  entry = "bench" =>
     \A i \in 1..Len(cases) :
        Len(cases[i].versions) = Len(cases[i].version_names)

\* setup("exatensor", "V100"): the exatensor case with opt3 and opt4 gone,
\* versions and names alike.
C8_Witness ==
  /\ entry = "bench" /\ Len(cases) = 1
  /\ cases[1].name = "exatensor"
  /\ cases[1].versions = << "", "-opt1", "-opt2" >>
  /\ cases[1].version_names = << "base", "opt1", "opt2" >>

\* ---------------------------------------------------------------------- C9
\* The package specs an install command names (the tokens after "install").
InstallSpecs(argv) == SubSeq(argv, 3, Len(argv))

\* Every package-manager call was issued only after the one before it succeeded.
EachAfterSuccess == \A i \in 2..Len(SpackCalls) : Ok(SpackCalls[i-1])

C10_DriverCheckAfterSetup ==
  (RunnerEnded /\ ~fs0.bench /\ AllOk) =>
     /\ exc = DriverMissing
     /\ exitCode > 0
     /\ DriverCalls = {}
     /\ (FetchCalls # {}) <=>
          (~known_args.skip_data_setup /\ ~fs0.data /\ fs0.get_data)

====
